---- MODULE Spec2Model ----
(***************************************************************************)
(* Model of src/frequency_response.py (AutoEq): the FrequencyResponse      *)
(* buffer, its pipeline operations, and the peak initialisation, the      *)
(* optimisation loop and the pruning of the parametric-EQ fit.             *)
(*                                                                         *)
(* Numbers.  Amplitudes are fixed-point, one unit = 0.1 dB; every          *)
(* arithmetic result is rounded to that grid (Round), as the floats of     *)
(* the program are rounded to theirs.  Unit-less coefficients (sigmoid     *)
(* weights, gain_k) are in percent.  The program uses a frequency only     *)
(* through log10/log2 of it, so a frequency is recorded by its position    *)
(* on the logarithmic axis, in half grid steps: OCTAVE positions make one  *)
(* octave, the grids have a step of 2 positions (f_step = 2^(1/20)), and   *)
(* 1000 Hz is position P1000.                                              *)
(***************************************************************************)
EXTENDS Integers, Sequences, FiniteSets, TLC

VARIABLES
    fr,             \* the FrequencyResponse under work (main's fr)
    compensation,   \* the compensation FrequencyResponse handed to compensate
    op,             \* the last operation called on fr
    err,            \* "none" when it returned, else the exception it raised
    fit_target,     \* the target= curve of the last optimizer run (line 479)
    step_i,         \* i of the optimisation loop (line 432)
    min_loss,       \* min_loss, -1 for None
    bad_steps,
    step_loss,      \* the loss fetched by the last step, -1 before the first
    saved,          \* the step whose sess.run stored _fc, _Q, _gain; 0 for none yet
    saved_loss,     \* the step_loss of that step
    least_saved_loss,   \* the least step_loss at which parameters were stored so far
    best_loss,      \* the least step_loss fetched so far, -1 before the first
    pc,             \* "idle", "loop", "done"
    seed,           \* the peak initialisation (lines 228-325) of one optimizer run
    fit,            \* _fc, _Q, _gain as the loop left them and as they are returned
    gen,            \* one call of generate_frequencies (lines 618-632)
    csv,            \* the CSV file of write_to_csv and read_from_csv
    main            \* one run of main (lines 1087-1162)

vars == <<fr, compensation, op, err, fit_target,
          step_i, min_loss, bad_steps, step_loss, saved, saved_loss, least_saved_loss,
          best_loss, pc, seed, fit, gen, csv, main>>

frVars  == <<fr, compensation, op, err, fit_target>>
optVars == <<step_i, min_loss, bad_steps, step_loss, saved, saved_loss, least_saved_loss,
             best_loss, pc>>
fitVars == <<seed, fit>>
ioVars  == <<gen, csv, main>>

-----------------------------------------------------------------------------
(* Arithmetic *)

\* n/d rounded to the nearest integer (d # 0)
Round(n, d) == IF d > 0 THEN (2 * n + d) \div (2 * d) ELSE (2 * (-n) + (-d)) \div (2 * (-d))

Min(a, b) == IF a < b THEN a ELSE b
Max(a, b) == IF a > b THEN a ELSE b
Abs(a) == IF a < 0 THEN -a ELSE a

Add(a, b) == [i \in 1..Len(a) |-> a[i] + b[i]]
Sub(a, b) == [i \in 1..Len(a) |-> a[i] - b[i]]
Shift(a, d) == [i \in 1..Len(a) |-> a[i] - d]

-----------------------------------------------------------------------------
(* Geometry of the logarithmic frequency axis *)

OCTAVE == 40            \* positions per octave (f_step = 2^(1/20), 2 positions a step)
P1000 == 4              \* 1000 Hz, line 663
TILT_CENTER == -22      \* DEFAULT_F_MIN * sqrt(DEFAULT_F_MAX / DEFAULT_F_MIN) = 632 Hz
BASS_BOOST_F_LOWER == -158      \* 60 Hz
BASS_BOOST_F_UPPER == -89       \* 200 Hz
DEFAULT_TREBLE_F_LOWER == 107   \* 6000 Hz
DEFAULT_TREBLE_F_UPPER == 124   \* 8000 Hz

DEFAULT_MAX_GAIN == 60
DEFAULT_TREBLE_MAX_GAIN == 0
DEFAULT_TREBLE_GAIN_K == 100
DEFAULT_SMOOTHING_WINDOW_SIZE == 7          \* 1/7 octave
DEFAULT_SMOOTHING_ITERATIONS == 10
DEFAULT_TREBLE_SMOOTHING_WINDOW_SIZE == 5   \* 1/5 octave
DEFAULT_TREBLE_SMOOTHING_ITERATIONS == 100
KINK_WINDOW_SIZE == 12                      \* 1/12 octave, line 918

\* generate_frequencies(f_min, f_max, f_step) for two ranges around 1 kHz
GRID5 == <<1, 3, 5, 7, 9>>
GRID4 == <<3, 5, 7, 9>>
Grids == {GRID5, GRID4}

\* the frequencies of a measurement file
CSV_FREQUENCY == <<1, 5, 9>>

Channels == {"raw", "smoothed", "error", "error_smoothed", "equalization",
             "parametric_eq", "equalized_raw", "equalized_smoothed", "target"}

-----------------------------------------------------------------------------
(* FrequencyResponse *)

\* __init__ with only frequency and raw given
FrequencyResponse(frequency, raw) ==
    [frequency |-> frequency, raw |-> raw, smoothed |-> <<>>, error |-> <<>>,
     error_smoothed |-> <<>>, equalization |-> <<>>, parametric_eq |-> <<>>,
     equalized_raw |-> <<>>, equalized_smoothed |-> <<>>, target |-> <<>>]

reset(self, raw, smoothed, error, error_smoothed, equalization, parametric_eq, equalized_raw, equalized_smoothed, target) ==
    [self EXCEPT
        !.raw = IF raw THEN <<>> ELSE @,
        !.smoothed = IF smoothed THEN <<>> ELSE @,
        !.error = IF error THEN <<>> ELSE @,
        !.error_smoothed = IF error_smoothed THEN <<>> ELSE @,
        !.equalization = IF equalization THEN <<>> ELSE @,
        !.parametric_eq = IF parametric_eq THEN <<>> ELSE @,
        !.equalized_raw = IF equalized_raw THEN <<>> ELSE @,
        !.equalized_smoothed = IF equalized_smoothed THEN <<>> ELSE @,
        !.target = IF target THEN <<>> ELSE @]

\* InterpolatedUnivariateSpline(xs, ys, k=1)(x): piecewise linear through the
\* points, the end pieces extended outside them
Segment(xs, x) ==
    LET inside == {i \in 1..(Len(xs) - 1) : xs[i] <= x}
    IN  IF inside = {} THEN 1 ELSE CHOOSE i \in inside : \A j \in inside : j <= i

Spline1(xs, ys, x) ==
    LET i == Segment(xs, x)
    IN  Round(ys[i] * (xs[i + 1] - x) + ys[i + 1] * (x - xs[i]), xs[i + 1] - xs[i])

interpolate_raises(self) == Len(self.raw) < 2 \/ Len(self.raw) # Len(self.frequency)

\* interpolate that forgets line 652
interpolate_without_reset(self, f) ==
    [self EXCEPT !.frequency = f,
                 !.raw = [i \in 1..Len(f) |-> Spline1(self.frequency, self.raw, f[i])]]

interpolate(self, f) ==
    LET raw == [i \in 1..Len(f) |-> Spline1(self.frequency, self.raw, f[i])]
    IN  reset([self EXCEPT !.frequency = f, !.raw = raw],
              FALSE, TRUE, TRUE, TRUE, TRUE, TRUE, TRUE, TRUE, TRUE)

calibrate_raises(self, calibration) ==
    Len(calibration.raw) # Len(self.raw) /\ Len(calibration.raw) # 1

calibrate(self, calibration) ==
    LET c == calibration.raw
        raw == [i \in 1..Len(self.raw) |-> self.raw[i] - (IF Len(c) = 1 THEN c[1] ELSE c[i])]
    IN  reset([self EXCEPT !.raw = raw],
              FALSE, TRUE, TRUE, TRUE, TRUE, TRUE, TRUE, TRUE, TRUE)

\* center by the sample at the grid point below 1000 Hz
center_at_grid_point(self) ==
    LET diff == self.raw[Segment(self.frequency, P1000)]
    IN  reset([self EXCEPT !.raw = Shift(@, diff),
                           !.smoothed = IF Len(@) > 0 THEN Shift(@, diff) ELSE @],
              FALSE, FALSE, TRUE, TRUE, TRUE, TRUE, TRUE, TRUE, FALSE)

\* center that leaves error in place as well
center_keeps_error(self) ==
    LET diff == Spline1(self.frequency, self.raw, P1000)
    IN  reset([self EXCEPT !.raw = Shift(@, diff),
                           !.smoothed = IF Len(@) > 0 THEN Shift(@, diff) ELSE @],
              FALSE, FALSE, FALSE, TRUE, TRUE, TRUE, TRUE, TRUE, FALSE)

center(self) ==
    LET diff == Spline1(self.frequency, self.raw, P1000)
    IN  reset([self EXCEPT !.raw = Shift(@, diff),
                           !.smoothed = IF Len(@) > 0 THEN Shift(@, diff) ELSE @],
              FALSE, FALSE, TRUE, TRUE, TRUE, TRUE, TRUE, TRUE, FALSE)

-----------------------------------------------------------------------------
(* Window size, sigmoid, Savitzky-Golay smoothing *)

_window_size_raises(self) == Len(self.frequency) < 2

\* octaves = 1/d.  log(k) / log(step_size) with the step the mean step of the
\* grid, rounded, made odd
_window_size(self, d) ==
    LET n == Len(self.frequency)
        window_size == Round(OCTAVE * (n - 1), d * (self.frequency[n] - self.frequency[1]))
    IN  IF window_size % 2 = 0 THEN window_size + 1 ELSE window_size

\* 100 * expit(t) for t = -6..6
EXPIT == <<0, 1, 2, 5, 12, 27, 50, 73, 88, 95, 98, 99, 100>>
expit(num, den) == EXPIT[Max(-6, Min(6, Round(num, den))) + 7]

\* (log10(f) - f_center) / (half_range / 4) is 4 (2x - l - u) / (u - l)
_sigmoid(self, f_lower, f_upper, a_normal, a_treble) ==
    [i \in 1..Len(self.frequency) |->
        LET a == expit(4 * (2 * self.frequency[i] - f_lower - f_upper), f_upper - f_lower)
        IN  Round(100 * a_normal - a * (a_normal - a_treble), 100)]

\* savgol_filter(y, window_length, 2) refuses a window that is not longer than the
\* polynomial order, and (mode='interp') one longer than the data
savgol_raises(n, window_length) == window_length < 3 \/ window_length > n

\* the least-squares quadratic over 5 points, evaluated at the first, the second
\* and the middle point, times 35
SG5_FIRST == <<31, 9, -3, -5, 3>>
SG5_SECOND == <<9, 13, 12, 6, -5>>
SG5_MIDDLE == <<-3, 12, 17, 12, -3>>

Dot5(c, y, from) ==
    c[1] * y[from] + c[2] * y[from + 1] + c[3] * y[from + 2] + c[4] * y[from + 3] + c[5] * y[from + 4]
Rev5(c) == <<c[5], c[4], c[3], c[2], c[1]>>

\* window 3: the quadratic through 3 points is the points themselves.
\* window 5: the middle of the window inside, the fitted ends at the edges.
\* (larger windows do not fit the grids of this model: savgol_raises)
savgol_filter(y, window_length) ==
    LET n == Len(y)
    IN  IF window_length = 3 THEN y
        ELSE [i \in 1..n |->
                IF i = 1 THEN Round(Dot5(SG5_FIRST, y, 1), 35)
                ELSE IF i = 2 THEN Round(Dot5(SG5_SECOND, y, 1), 35)
                ELSE IF i = n - 1 THEN Round(Dot5(Rev5(SG5_SECOND), y, n - 4), 35)
                ELSE IF i = n THEN Round(Dot5(Rev5(SG5_FIRST), y, n - 4), 35)
                ELSE Round(Dot5(SG5_MIDDLE, y, i - 2), 35)]

\* for _ in range(iterations): y = savgol_filter(y, ...); a pass that changes
\* nothing ends the recursion, the passes after it change nothing either
RECURSIVE savgol_iterate(_, _, _)
savgol_iterate(y, window_length, iterations) ==
    IF iterations = 0 THEN y
    ELSE LET z == savgol_filter(y, window_length)
         IN  IF z = y THEN y ELSE savgol_iterate(z, window_length, iterations - 1)

\* smoothing parameters: window sizes are 1/d octave, treble_window_size and
\* treble_iterations 0 for None
_smoothen_data_raises(self, data, p) ==
    \/ _window_size_raises(self)
    \/ savgol_raises(Len(data), _window_size(self, p.window_size))
    \/ savgol_raises(Len(data), _window_size(self, p.treble_window_size))

_smoothen_data(self, data, p) ==
    LET y_normal == savgol_iterate(data, _window_size(self, p.window_size), p.iterations)
        y_treble == savgol_iterate(data, _window_size(self, p.treble_window_size),
                                   p.treble_iterations)
        k_treble == _sigmoid(self, p.treble_f_lower, p.treble_f_upper, 0, 100)
    IN  [i \in 1..Len(data) |->
            Round(y_normal[i] * (100 - k_treble[i]) + y_treble[i] * k_treble[i], 100)]

\* lines 821-824: the treble filter defaults to the normal one
smoothen_params(p) ==
    [p EXCEPT !.treble_window_size = IF @ = 0 THEN p.window_size ELSE @,
              !.treble_iterations = IF @ = 0 THEN p.iterations ELSE @]

smoothen_raises(self, p) ==
    \/ p.treble_f_upper <= p.treble_f_lower
    \/ _smoothen_data_raises(self, self.raw, smoothen_params(p))

\* a band check placed after the reset of line 829
smoothen_raised_after_reset(self, p) == reset(self, FALSE, FALSE, FALSE, FALSE, TRUE, TRUE, TRUE, TRUE, FALSE)

\* the buffer as the exception leaves it: the tests of lines 817 and of
\* savgol_filter come before the first assignment
smoothen_raised(self, p) == self

\* smoothen that does not reset equalization
smoothen_keeps_equalization(self, p) ==
    LET q == smoothen_params(p)
    IN  reset([self EXCEPT !.smoothed = _smoothen_data(self, self.raw, q),
                           !.error_smoothed = IF Len(self.error) > 0
                                              THEN _smoothen_data(self, self.error, q) ELSE @],
              FALSE, FALSE, FALSE, FALSE, FALSE, TRUE, TRUE, TRUE, FALSE)

smoothen(self, p) ==
    LET q == smoothen_params(p)
        smoothed == _smoothen_data(self, self.raw, q)
        error_smoothed == IF Len(self.error) > 0 THEN _smoothen_data(self, self.error, q)
                          ELSE self.error_smoothed
    IN  reset([self EXCEPT !.smoothed = smoothed, !.error_smoothed = error_smoothed],
              FALSE, FALSE, FALSE, FALSE, TRUE, TRUE, TRUE, TRUE, FALSE)

-----------------------------------------------------------------------------
(* Target and compensation *)

_tilt(self, tilt) ==
    [i \in 1..Len(self.frequency) |-> Round(tilt * (self.frequency[i] - TILT_CENTER), OCTAVE)]

_target(self, bass_boost, tilt) ==
    Add(_sigmoid(self, BASS_BOOST_F_LOWER, BASS_BOOST_F_UPPER, bass_boost, 0), _tilt(self, tilt))

COMPENSATION_SMOOTHING ==
    [window_size |-> DEFAULT_TREBLE_SMOOTHING_WINDOW_SIZE,
     iterations |-> DEFAULT_TREBLE_SMOOTHING_ITERATIONS,
     treble_window_size |-> 0, treble_iterations |-> 0,
     treble_f_lower |-> DEFAULT_TREBLE_F_LOWER, treble_f_upper |-> DEFAULT_TREBLE_F_UPPER]

\* compensate working on the object it was handed
compensation_alias(c) == [new |-> FALSE, fr |-> c]

\* line 706: the work is done on a new FrequencyResponse built from the argument's
\* arrays, not on the argument ("new" tells the two apart)
compensation_copy(c) == [new |-> TRUE, fr |-> FrequencyResponse(c.frequency, c.raw)]

\* lines 707-713 on that object
compensation_prepare(c) ==
    LET centered == center(smoothen(c, COMPENSATION_SMOOTHING))
    IN  [centered EXCEPT !.raw = centered.smoothed, !.smoothed = <<>>]

compensate_raises(self, c) ==
    \/ smoothen_raises(FrequencyResponse(c.frequency, c.raw), COMPENSATION_SMOOTHING)
    \/ Len(c.raw) # Len(self.frequency)
    \/ Len(self.raw) # Len(self.frequency)

compensate(self, c, bass_boost, tilt) ==
    LET local == compensation_prepare(compensation_copy(c).fr)
        target == Add(local.raw, _target(self, bass_boost, tilt))
        error == Sub(self.raw, target)
    IN  reset([self EXCEPT !.target = target, !.error = error],
              FALSE, FALSE, FALSE, TRUE, TRUE, TRUE, TRUE, TRUE, FALSE)

\* what the call leaves in the object it was handed
compensate_argument(c) ==
    IF compensation_copy(c).new THEN c ELSE compensation_prepare(compensation_copy(c).fr)

-----------------------------------------------------------------------------
(* Equalization *)

\* InterpolatedUnivariateSpline(xs, ys, k=2)(x), the interpolating quadratic
\* spline of FITPACK: it passes through its points; through 3 points it is the
\* parabola; through 4 it is two parabolas joined with their slopes at the knot
\* (x2 + x3) / 2.  With fewer than 3 points it raises (m > k).  Grids of up to
\* 5 points leave no other case in which a dropped point is evaluated.
Parabola(xs, ys, x) ==
    LET d == (xs[1] - xs[2]) * (xs[1] - xs[3]) * (xs[2] - xs[3])
        n == ys[1] * (x - xs[2]) * (x - xs[3]) * (xs[2] - xs[3])
             - ys[2] * (x - xs[1]) * (x - xs[3]) * (xs[1] - xs[3])
             + ys[3] * (x - xs[1]) * (x - xs[2]) * (xs[1] - xs[2])
    IN  Round(n, d)

TwoParabolas(xs, ys, x) ==
    LET h == (xs[2] - xs[1]) * (xs[4] - xs[3])
        t2 == xs[2] + xs[3]
        u1 == t2 - 2 * xs[1]
        u2 == t2 - 2 * xs[2]
        u3 == t2 - 2 * xs[3]
        u4 == t2 - 2 * xs[4]
        s1 == (ys[2] - ys[1]) * (xs[4] - xs[3])
        s2 == (ys[4] - ys[3]) * (xs[2] - xs[1])
        r1 == 4 * h * (ys[3] - ys[1]) + 2 * s2 * u3 - 2 * s1 * u1
        r2 == 2 * s2 - 2 * s1
        det == u3 * u4 * (u1 + u2) - u1 * u2 * (u3 + u4)
        a == u3 * u4 * r2 - r1 * (u3 + u4)
        b == u1 * u2 * r2 - r1 * (u1 + u2)
    IN  IF 2 * x <= t2
        THEN Round(ys[1] * h * det + s1 * (x - xs[1]) * det + a * (x - xs[1]) * (x - xs[2]),
                   h * det)
        ELSE Round(ys[3] * h * det + s2 * (x - xs[3]) * det + b * (x - xs[3]) * (x - xs[4]),
                   h * det)

Spline2_raises(xs) == Len(xs) < 3

Spline2(xs, ys, x) ==
    IF \E j \in 1..Len(xs) : xs[j] = x
    THEN ys[CHOOSE j \in 1..Len(xs) : xs[j] = x]
    ELSE IF Len(xs) = 3 THEN Parabola(xs, ys, x)
    ELSE IF Len(xs) = 4 THEN TwoParabolas(xs, ys, x)
    ELSE CHOOSE v \in {} : TRUE

\* the selection of lines 884-887 with the two tests swapped
equalize_error_first(self) ==
    IF Len(self.error) > 0 THEN self.error ELSE self.error_smoothed

\* lines 884-889
equalize_error(self) ==
    IF Len(self.error_smoothed) > 0 THEN self.error_smoothed ELSE self.error

\* line 901
max_gain_curve(self, p) ==
    _sigmoid(self, p.treble_f_lower, p.treble_f_upper, p.max_gain, p.treble_max_gain)

\* lines 902-904
equalize_gain(self, p) ==
    LET error == equalize_error(self)
        gain_k == _sigmoid(self, p.treble_f_lower, p.treble_f_upper, 100, p.treble_gain_k)
    IN  [i \in 1..Len(error) |-> Round((-error[i]) * gain_k[i], 100)]

\* line 905
equalize_clipped(self, p) ==
    LET gain == equalize_gain(self, p)
        max_gain == max_gain_curve(self, p)
    IN  [i \in 1..Len(gain) |-> gain[i] > max_gain[i]]

\* lines 909-911
equalize_clip(self, p) ==
    LET gain == equalize_gain(self, p)
        max_gain == max_gain_curve(self, p)
        clipped == equalize_clipped(self, p)
    IN  [i \in 1..Len(gain) |-> IF clipped[i] THEN max_gain[i] ELSE gain[i]]

\* the kinks with lines 913-914 left out
kink_inds_with_first(clipped) ==
    {i \in 1..Len(clipped) : clipped[i] # (IF i = 1 THEN FALSE ELSE clipped[i - 1])}

\* lines 897, 906-908, 913-914 (indices from 1: the first sample is index 1)
kink_inds(clipped) ==
    {i \in 1..Len(clipped) : clipped[i] # (IF i = 1 THEN FALSE ELSE clipped[i - 1])} \ {1}

\* lines 919-928
doomed_inds(n, kinks, window_size) ==
    LET half == (window_size - 1) \div 2
    IN  (UNION {Max(1, i - half)..Min(n, i + half) : i \in kinks}) \ {n, n - 1}

equalize_doomed(self, p) ==
    doomed_inds(Len(self.frequency), kink_inds(equalize_clipped(self, p)),
                _window_size(self, KINK_WINDOW_SIZE))

Kept(seq, doomed) ==
    LET inds == SelectSeq([i \in 1..Len(seq) |-> i], LAMBDA i : i \notin doomed)
    IN  [j \in 1..Len(inds) |-> seq[inds[j]]]

\* lines 930-933
equalize_smooth(self, p) ==
    LET doomed == equalize_doomed(self, p)
        f == Kept(self.frequency, doomed)
        e == Kept(equalize_clip(self, p), doomed)
    IN  [i \in 1..Len(self.frequency) |-> Spline2(f, e, self.frequency[i])]

equalize_missing(self) == Len(self.error_smoothed) = 0 /\ Len(self.error) = 0

equalize_spline_raises(self, p) ==
    /\ ~equalize_missing(self)
    /\ p.smoothen
    /\ Spline2_raises(Kept(self.frequency, equalize_doomed(self, p)))

\* lines 881-882
equalize_begin(self) == [self EXCEPT !.equalization = <<>>, !.equalized_raw = <<>>]

\* the buffer as the exception leaves it
equalize_raised(self, p) ==
    IF equalize_missing(self) THEN equalize_begin(self)
    ELSE [equalize_begin(self) EXCEPT !.equalization = equalize_clip(self, p)]

equalize(self, p) ==
    LET equalization == IF p.smoothen THEN equalize_smooth(self, p) ELSE equalize_clip(self, p)
    IN  [equalize_begin(self) EXCEPT
            !.equalization = equalization,
            !.equalized_raw = Add(self.raw, equalization),
            !.equalized_smoothed = IF Len(self.smoothed) > 0
                                   THEN Add(self.smoothed, equalization) ELSE @]

-----------------------------------------------------------------------------
(* Parametric EQ *)

\* optimize_parametric_eq without the test of line 474
optimize_parametric_eq_unguarded(self) == FALSE

optimize_parametric_eq_raises(self) == Len(self.equalization) = 0

\* _run_optimize_parametric_eq returns the response of the fitted filters on the
\* grid: here either a fit that meets the target within the resolution, or the
\* flat response of an empty filter list (every filter pruned at line 460)
FitOutcomes(target) == {target, [i \in 1..Len(target) |-> 0]}

optimize_parametric_eq(self, eq) == [self EXCEPT !.parametric_eq = eq]

-----------------------------------------------------------------------------
(* Peak initialisation of _run_optimize_parametric_eq, lines 228-325.       *)
(* A candidate's frequency is its position on the logarithmic axis.  The    *)
(* grid of this part has a step of 3 positions (f_step = 2^(3/40)) and      *)
(* starts at 20 Hz; 60 Hz lies between two of its points.  s is the state   *)
(* of the closure: the smoothed target, max_filters (-1 for None), the set  *)
(* exact of the grid indices whose frequency is a float32 number, and the   *)
(* nonlocal peak_fc and peak_g.                                             *)

F20 == -222
F40 == -182
F60 == -158
F80 == -142
SEED_N == 30
SeedGrid == [i \in 1..SEED_N |-> F20 + 3 * (i - 1)]

\* lines 229-230: smoothen(window_size=1/7, iterations=1000) of the target
seed_smoothed(target) ==
    smoothen(FrequencyResponse(SeedGrid, target),
             [window_size |-> 7, iterations |-> 1000,
              treble_window_size |-> 0, treble_iterations |-> 0,
              treble_f_lower |-> DEFAULT_TREBLE_F_LOWER,
              treble_f_upper |-> DEFAULT_TREBLE_F_UPPER]).smoothed

\* scipy.signal.find_peaks(x)[0]: the samples higher than both neighbours, a
\* flat top counted once at its middle, the two ends of x never
PlateauEnd(x, i) ==
    CHOOSE r \in i..Len(x) : (\A j \in i..r : x[j] = x[i]) /\ (r = Len(x) \/ x[r + 1] # x[i])

find_peaks(x) ==
    {(i + PlateauEnd(x, i)) \div 2 :
        i \in {k \in 2..(Len(x) - 1) :
                /\ x[k - 1] < x[k]
                /\ PlateauEnd(x, k) < Len(x)
                /\ x[PlateauEnd(x, k) + 1] < x[k]}}

RECURSIVE Sorted(_)
Sorted(S) ==
    IF S = {} THEN <<>>
    ELSE LET m == CHOOSE a \in S : \A b \in S : a <= b
         IN  <<m>> \o Sorted(S \ {m})

\* lines 231-236
peak_inds(smoothed) ==
    LET fr_target_pos == [i \in 1..Len(smoothed) |-> Max(smoothed[i], 0)]
        fr_target_neg == [i \in 1..Len(smoothed) |-> Max(-smoothed[i], 0)]
        inds == Sorted(find_peaks(fr_target_pos) \cup find_peaks(fr_target_neg))
    IN  SelectSeq(inds, LAMBDA i : Abs(smoothed[i]) > 1)

\* line 243
peak_frequencies(smoothed) ==
    LET inds == peak_inds(smoothed)
    IN  [j \in 1..Len(inds) |-> SeedGrid[inds[j]]]

\* line 245 reads peak_fc[0]
sub_bass_raises(peak_fc) == Len(peak_fc) = 0

\* sub-bass candidates with the tests of lines 245 and 248 in the other order
sub_bass_low_first(peak_fc) ==
    IF peak_fc[1] > F40 THEN <<F20>> \o peak_fc
    ELSE IF peak_fc[1] > F80 THEN <<F20, F60>> \o peak_fc
    ELSE peak_fc

\* lines 245-250
sub_bass(peak_fc) ==
    IF peak_fc[1] > F80 THEN <<F20, F60>> \o peak_fc
    ELSE IF peak_fc[1] > F40 THEN <<F20>> \o peak_fc
    ELSE peak_fc

\* lines 253-254
peak_gains(smoothed, peak_fc) ==
    [j \in 1..Len(peak_fc) |-> Spline1(SeedGrid, smoothed, peak_fc[j])]

\* lines 259-263, min_gain in hundredths of a dB
remove_small_filters(s, min_gain) ==
    LET small == {j \in 1..Len(s.peak_g) : ~(10 * Abs(s.peak_g[j]) > min_gain)}
    IN  [s EXCEPT !.peak_fc = Kept(s.peak_fc, small), !.peak_g = Kept(s.peak_g, small)]

\* lines 306-314
remove_small(s) ==
    LET s1 == remove_small_filters(s, 10)
        s2 == IF Len(s1.peak_fc) > s.max_filters THEN remove_small_filters(s1, 20) ELSE s1
        s3 == IF Len(s2.peak_fc) > s.max_filters THEN remove_small_filters(s2, 33) ELSE s2
    IN  IF s.max_filters = -1 THEN s1 ELSE s3

sign(g) == IF g > 0 THEN 1 ELSE IF g < 0 THEN -1 ELSE 0

\* lines 269-272
pair_inds(peak_g) ==
    {j \in 1..(Len(peak_g) - 1) : sign(peak_g[j]) = sign(peak_g[j + 1])}

\* np.where(frequency == f)[0] for a float32 f: the grid frequency that f was
\* cast from is found only if the cast did not change it
where(s, f) == {i \in s.exact : SeedGrid[i] = f}

RECURSIVE SumSquares(_, _, _)
SumSquares(e, from, to) ==
    IF from > to THEN 0 ELSE e[from] * e[from] + SumSquares(e, from + 1, to)

\* lines 278-287: the sum of the squared errors and their number.  g_1 is read
\* at pair_ind, so the line from g_0 to g_1 is level, wherever it is evaluated
pair_err(s, pair_ind) ==
    LET f_0 == s.peak_fc[pair_ind]
        g_0 == s.peak_g[pair_ind]
        i_0 == CHOOSE i \in where(s, f_0) : TRUE
        f_1 == s.peak_fc[pair_ind + 1]
        i_1 == CHOOSE i \in where(s, f_1) : TRUE
        g_1 == s.peak_g[pair_ind]
        line == [i \in i_0..i_1 |-> Spline1(<<f_0, f_1>>, <<g_0, g_1>>, SeedGrid[i])]
        line_err == [i \in i_0..i_1 |-> line[i] - s.smoothed[i]]
    IN  [sum |-> SumSquares(line_err, i_0, i_1), n |-> i_1 - i_0 + 1]

\* err_a < err_b for two root mean squares
err_less(a, b) == a.sum * b.n < b.sum * a.n

\* lines 288-290: the first pair of the least error
min_err_ind(s) ==
    CHOOSE j \in pair_inds(s.peak_g) :
        \A k \in pair_inds(s.peak_g) :
            /\ k < j => err_less(pair_err(s, j), pair_err(s, k))
            /\ k > j => ~err_less(pair_err(s, k), pair_err(s, j))

\* lines 280 and 282 index an empty np.where result (IndexError); line 292
\* compares None with 0.3 when there was no pair (TypeError)
merge_filters_raises(s) ==
    IF \E j \in pair_inds(s.peak_g) : where(s, s.peak_fc[j]) = {} \/ where(s, s.peak_fc[j + 1]) = {}
    THEN "IndexError"
    ELSE IF pair_inds(s.peak_g) = {} THEN "TypeError"
    ELSE "none"

\* line 292: min_err < 0.3
merge_filters_result(s) ==
    LET min_err == pair_err(s, min_err_ind(s))
    IN  min_err.sum < 9 * min_err.n

\* lines 294-302: c is the geometric mean of the two frequencies moved to the
\* nearest grid frequency; half way between two grid positions the lower
\* frequency is the nearer one.  g is the mean of the two gains
merge_filters(s) ==
    LET j == min_err_ind(s)
        i_0 == CHOOSE i \in 1..SEED_N : SeedGrid[i] = s.peak_fc[j]
        i_1 == CHOOSE i \in 1..SEED_N : SeedGrid[i] = s.peak_fc[j + 1]
        c == SeedGrid[(i_0 + i_1) \div 2]
        g == Round(s.peak_g[j] + s.peak_g[j + 1], 2)
        n == Len(s.peak_fc)
    IN  [s EXCEPT !.peak_fc = SubSeq(@, 1, j - 1) \o <<c>> \o SubSeq(@, j + 2, n),
                  !.peak_g = SubSeq(@, 1, j - 1) \o <<g>> \o SubSeq(@, j + 2, n)]

\* np.flip(np.argsort(np.abs(peak_g))): the indices by falling |gain|, equal
\* gains by falling index (argsort keeps the order of equal keys in so short
\* an array)
RECURSIVE flip_argsort_abs(_, _)
flip_argsort_abs(peak_g, S) ==
    IF S = {} THEN <<>>
    ELSE LET m == CHOOSE a \in S : \A b \in S :
                    \/ Abs(peak_g[b]) < Abs(peak_g[a])
                    \/ Abs(peak_g[b]) = Abs(peak_g[a]) /\ b <= a
         IN  <<m>> \o flip_argsort_abs(peak_g, S \ {m})

\* the reduction without lines 320-325
truncate_skipped(s) == s

\* lines 320-325
truncate(s) ==
    LET sorted_inds == SubSeq(flip_argsort_abs(s.peak_g, 1..Len(s.peak_g)), 1, s.max_filters)
    IN  IF Len(s.peak_fc) > s.max_filters
        THEN [s EXCEPT !.peak_fc = [k \in 1..Len(sorted_inds) |-> s.peak_fc[sorted_inds[k]]],
                       !.peak_g = [k \in 1..Len(sorted_inds) |-> s.peak_g[sorted_inds[k]]]]
        ELSE s

\* lines 460-463: sl = |_gain| > 0.1, then _fc[sl], |_Q[sl]|, _gain[sl]
prune(saved_arrays) ==
    LET dropped == {j \in 1..Len(saved_arrays.gain) : ~(Abs(saved_arrays.gain[j]) > 1)}
        Q == Kept(saved_arrays.Q, dropped)
    IN  [fc |-> Kept(saved_arrays.fc, dropped),
         Q |-> [j \in 1..Len(Q) |-> Abs(Q[j])],
         gain |-> Kept(saved_arrays.gain, dropped)]

-----------------------------------------------------------------------------
(* generate_frequencies, lines 618-632.  Here a frequency is a number of   *)
(* Hz: f is the pair of its whole Hz and its millionths of a Hz, f_step is *)
(* in hundredths (1.01 is 101), and freq_new holds whole Hz.               *)

DEFAULT_F_MIN == 20
DEFAULT_F_MAX == 20000
DEFAULT_STEP == 101
F_TOP == 20000      \* the 20000 of lines 622 and 627
MICRO == 1000000

\* f / f_step
f_div(f, f_step) ==
    LET a == f[1] * 100
        t == (a % f_step) * MICRO + f[2] * 100
        micro == (t + f_step \div 2) \div f_step
    IN  <<a \div f_step + micro \div MICRO, micro % MICRO>>

\* f * f_step
f_mul(f, f_step) ==
    LET a == f[1] * f_step
        t == (a % 100) * MICRO + f[2] * f_step
        micro == (t + 50) \div 100
    IN  <<a \div 100 + micro \div MICRO, micro % MICRO>>

\* int(round(f)): a half goes to the even neighbour
int_round(f) ==
    IF f[2] * 2 > MICRO \/ (f[2] * 2 = MICRO /\ f[1] % 2 = 1) THEN f[1] + 1 ELSE f[1]

f_greater(f, hz) == f[1] > hz \/ (f[1] = hz /\ f[2] > 0)
f_less(f, hz) == f[1] < hz

\* sorted(freq_new), the duplicates kept
sorted_list(freq_new) == SortSeq(freq_new, LAMBDA a, b : a < b)

\* line 631: sorted(set(freq_new))
sorted_set(freq_new) ==
    LET values == {freq_new[i] : i \in 1..Len(freq_new)}
        low == CHOOSE a \in values : \A b \in values : a <= b
        high == CHOOSE a \in values : \A b \in values : a >= b
    IN  IF values = {} THEN <<>>
        ELSE SelectSeq([i \in 1..(high - low + 1) |-> low + i - 1], LAMBDA v : v \in values)

GenIdle ==
    [f_min |-> 0, f_max |-> 0, f_step |-> 0, f |-> <<0, 0>>, freq_new |-> <<>>,
     out |-> <<>>, pc |-> "idle"]

-----------------------------------------------------------------------------
(* read_from_csv and write_to_csv, lines 152-206.  The file is its header  *)
(* (the set of the column names) and its columns; a number in the file is  *)
(* its text with two decimals, held as a count of hundredths.  Where a file *)
(* is written and read back, the buffer holds thousandths of a dB.          *)

Columns == {"frequency"} \cup Channels

\* float_format='%.2f' of line 206
format_2f(x) == Round(x, 10)

\* pd.read_csv of such a text
parse_2f(t) == t * 10

\* lines 185-206: a column for every array that is not empty; the frequencies
\* are whole numbers and are written as they are
write_to_csv(self) ==
    [header |-> {c \in Columns : Len(self[c]) > 0},
     cols |-> [c \in Columns |->
                IF c = "frequency" THEN self[c]
                ELSE [i \in 1..Len(self[c]) |-> format_2f(self[c][i])]]]

\* list(df[c]) if c in df else None, and _init_data of it
read_column(file, c) ==
    IF c \in file.header THEN [i \in 1..Len(file.cols[c]) |-> parse_2f(file.cols[c][i])]
    ELSE <<>>

\* lines 158-180: error_smoothed is not among the columns read, and __init__
\* (lines 64-66) makes the default frequencies when there is no frequency
read_from_csv(file) ==
    [c \in Columns |->
        IF c = "frequency"
        THEN (IF c \in file.header THEN file.cols[c] ELSE GRID5)
        ELSE IF c = "error_smoothed" THEN <<>>
        ELSE read_column(file, c)]

NoFile == [header |-> {}, cols |-> [c \in Columns |-> <<>>]]

CsvIdle == [file |-> NoFile, pc |-> "idle"]

MainIdle ==
    [calibration |-> [raw |-> <<>>], compensation |-> FALSE, equalize |-> FALSE,
     parametric_eq |-> FALSE, glob_files |-> <<>>, file |-> 0, ran |-> <<>>,
     done |-> <<>>, pc |-> "idle", err |-> "none"]

IoIdle == gen = GenIdle /\ csv = CsvIdle /\ main = MainIdle

-----------------------------------------------------------------------------

SeedIdle ==
    [target |-> <<>>, smoothed |-> <<>>, max_filters |-> -1, exact |-> {},
     peak_fc |-> <<>>, peak_g |-> <<>>, pc |-> "idle", err |-> "none"]

FitIdle ==
    [saved |-> [fc |-> <<>>, Q |-> <<>>, gain |-> <<>>],
     returned |-> [fc |-> <<>>, Q |-> <<>>, gain |-> <<>>], pc |-> "idle"]

-----------------------------------------------------------------------------
(* Inputs *)

MaxAmp == 130       \* measurements are calibrated only while |raw| stays within 13 dB

\* raw of a measurement file, at CSV_FREQUENCY
Measurements == {<<0, -120, 0>>, <<-100, 40, -100>>, <<-60, -60, 60>>}

\* calibration.raw: one curve on GRID5, and a single sample (numpy broadcasts it)
Calibrations == {[raw |-> <<0, 40, 0, -140, 0>>], [raw |-> <<20>>]}

\* the compensation file, resampled to GRID5 by main (lines 1097-1102)
Compensations == {FrequencyResponse(GRID5, <<0, 0, 0, 0, 0>>),
                  FrequencyResponse(GRID5, <<60, -60, 60, -60, 60>>)}

\* (bass_boost, tilt)
CompensateParams == {<<0, 0>>, <<40, 100>>}

SmoothenParams ==
    {[window_size |-> DEFAULT_SMOOTHING_WINDOW_SIZE, iterations |-> DEFAULT_SMOOTHING_ITERATIONS,
      treble_window_size |-> 0, treble_iterations |-> 0,
      treble_f_lower |-> DEFAULT_TREBLE_F_LOWER, treble_f_upper |-> DEFAULT_TREBLE_F_UPPER],
     [window_size |-> DEFAULT_SMOOTHING_WINDOW_SIZE, iterations |-> DEFAULT_SMOOTHING_ITERATIONS,
      treble_window_size |-> DEFAULT_TREBLE_SMOOTHING_WINDOW_SIZE,
      treble_iterations |-> DEFAULT_TREBLE_SMOOTHING_ITERATIONS,
      treble_f_lower |-> 3, treble_f_upper |-> 7]}
    \cup {[window_size |-> DEFAULT_SMOOTHING_WINDOW_SIZE, iterations |-> DEFAULT_SMOOTHING_ITERATIONS,
            treble_window_size |-> 0, treble_iterations |-> 0,
            treble_f_lower |-> b[1], treble_f_upper |-> b[2]] : b \in {<<7, 3>>, <<5, 5>>}}

EqualizeParams ==
    {[max_gain |-> DEFAULT_MAX_GAIN, smoothen |-> s,
      treble_f_lower |-> DEFAULT_TREBLE_F_LOWER, treble_f_upper |-> DEFAULT_TREBLE_F_UPPER,
      treble_max_gain |-> DEFAULT_TREBLE_MAX_GAIN, treble_gain_k |-> DEFAULT_TREBLE_GAIN_K]
        : s \in BOOLEAN}
    \cup {[max_gain |-> 30, smoothen |-> TRUE, treble_f_lower |-> 5, treble_f_upper |-> 9,
           treble_max_gain |-> 0, treble_gain_k |-> 50]}

WithinAmp(self) == \A i \in 1..Len(self.raw) : Abs(self.raw[i]) <= MaxAmp

-----------------------------------------------------------------------------
(* The pipeline: one action per call on fr *)

\* fit_target is kept while the parametric_eq it produced is
KeepFit(self) == IF Len(self.parametric_eq) = 0 THEN <<>> ELSE fit_target

Returned(name, self) ==
    /\ fr' = self
    /\ op' = name
    /\ err' = "none"
    /\ fit_target' = KeepFit(self)
    /\ UNCHANGED <<optVars, fitVars, ioVars>>

Raised(name, self, exception) ==
    /\ fr' = self
    /\ op' = name
    /\ err' = exception
    /\ fit_target' = KeepFit(self)
    /\ UNCHANGED <<compensation, optVars, fitVars, ioVars>>

Interpolate ==
    \E f \in Grids :
        /\ ~interpolate_raises(fr)
        /\ Returned("interpolate", interpolate(fr, f))
        /\ UNCHANGED compensation

Calibrate ==
    \E c \in Calibrations :
        /\ ~calibrate_raises(fr, c)
        /\ WithinAmp(calibrate(fr, c))
        /\ Returned("calibrate", calibrate(fr, c))
        /\ UNCHANGED compensation

CalibrateRaises ==
    \E c \in Calibrations :
        /\ calibrate_raises(fr, c)
        /\ Raised("calibrate", fr, "ValueError")

Center ==
    /\ Returned("center", center(fr))
    /\ UNCHANGED compensation

Compensate ==
    \E q \in CompensateParams :
        /\ ~compensate_raises(fr, compensation)
        /\ Returned("compensate", compensate(fr, compensation, q[1], q[2]))
        /\ compensation' = compensate_argument(compensation)

CompensateRaises ==
    /\ compensate_raises(fr, compensation)
    /\ Raised("compensate", fr, "ValueError")

Smoothen ==
    \E p \in SmoothenParams :
        /\ ~smoothen_raises(fr, p)
        /\ Returned("smoothen", smoothen(fr, p))
        /\ UNCHANGED compensation

SmoothenRaises ==
    \E p \in SmoothenParams :
        /\ smoothen_raises(fr, p)
        /\ Raised("smoothen", smoothen_raised(fr, p), "ValueError")

Equalize ==
    \E p \in EqualizeParams :
        /\ ~equalize_missing(fr)
        /\ ~equalize_spline_raises(fr, p)
        /\ Returned("equalize", equalize(fr, p))
        /\ UNCHANGED compensation

EqualizeRaises ==
    \E p \in EqualizeParams :
        /\ equalize_missing(fr) \/ equalize_spline_raises(fr, p)
        /\ Raised("equalize", equalize_raised(fr, p),
                  IF equalize_missing(fr) THEN "ValueError" ELSE "dfitpack.error")

OptimizeParametricEq ==
    \E eq \in FitOutcomes(fr.equalization) :
        /\ ~optimize_parametric_eq_raises(fr)
        /\ fr' = optimize_parametric_eq(fr, eq)
        /\ op' = "optimize_parametric_eq"
        /\ err' = "none"
        /\ fit_target' = fr.equalization
        /\ UNCHANGED <<compensation, optVars, fitVars, ioVars>>

OptimizeParametricEqRaises ==
    /\ optimize_parametric_eq_raises(fr)
    /\ Raised("optimize_parametric_eq", fr, "ValueError")

OptIdle ==
    /\ step_i = 0 /\ min_loss = -1 /\ bad_steps = 0 /\ step_loss = -1
    /\ saved = 0 /\ saved_loss = -1 /\ least_saved_loss = -1 /\ best_loss = -1 /\ pc = "idle"

Init ==
    /\ fr \in {FrequencyResponse(CSV_FREQUENCY, m) : m \in Measurements}
    /\ compensation \in Compensations
    /\ op = "read_from_csv"
    /\ err = "none"
    /\ fit_target = <<>>
    /\ IoIdle
    /\ OptIdle
    /\ seed = SeedIdle /\ fit = FitIdle

Next ==
    \/ Interpolate
    \/ Calibrate
    \/ CalibrateRaises
    \/ Center
    \/ Compensate
    \/ CompensateRaises
    \/ Smoothen
    \/ SmoothenRaises
    \/ Equalize
    \/ EqualizeRaises
    \/ OptimizeParametricEq
    \/ OptimizeParametricEqRaises

Spec == Init /\ [][Next]_vars

-----------------------------------------------------------------------------
(* The optimisation loop of _run_optimize_parametric_eq, lines 426-450.      *)
(* Losses are in thousandths.  What the Adam step makes of the loss is not  *)
(* modelled: each step fetches any loss of StepLosses.                      *)

threshold == 10         \* 0.01
target_loss == 100      \* 0.1
momentum == 2           \* stands for 300
STEPS == 5              \* stands for range(10000)

StepLosses == {80, 96, 104, 200, 204, 208, 230}

\* line 434
improves(loss) == min_loss = -1 \/ loss < min_loss

\* line 437
improves_enough(loss) == min_loss = -1 \/ min_loss - loss > threshold

\* the loop body without the test of line 447
OptStep_without_momentum ==
    /\ pc = "loop"
    /\ \E loss \in StepLosses :
        LET save == improves(loss)
            better == improves_enough(loss)
            bad == IF better THEN 0 ELSE bad_steps + 1
            stop == (better /\ loss < target_loss) \/ step_i + 1 = STEPS
        IN  /\ step_loss' = loss
            /\ saved' = IF save THEN step_i + 1 ELSE saved
            /\ saved_loss' = IF save THEN loss ELSE saved_loss
            /\ least_saved_loss' = IF save /\ (least_saved_loss = -1 \/ loss < least_saved_loss)
                                   THEN loss ELSE least_saved_loss
            /\ best_loss' = IF best_loss = -1 \/ loss < best_loss THEN loss ELSE best_loss
            /\ min_loss' = IF better THEN loss ELSE min_loss
            /\ bad_steps' = bad
            /\ step_i' = step_i + 1
            /\ pc' = IF stop THEN "done" ELSE "loop"
    /\ UNCHANGED <<frVars, fitVars, ioVars>>

\* one pass of the loop body, lines 433-450
OptStep ==
    /\ pc = "loop"
    /\ \E loss \in StepLosses :
        LET save == improves(loss)
            better == improves_enough(loss)
            bad == IF better THEN 0 ELSE bad_steps + 1
            stop == (better /\ loss < target_loss) \/ bad > momentum \/ step_i + 1 = STEPS
        IN  /\ step_loss' = loss
            /\ saved' = IF save THEN step_i + 1 ELSE saved
            /\ saved_loss' = IF save THEN loss ELSE saved_loss
            /\ least_saved_loss' = IF save /\ (least_saved_loss = -1 \/ loss < least_saved_loss)
                                   THEN loss ELSE least_saved_loss
            /\ best_loss' = IF best_loss = -1 \/ loss < best_loss THEN loss ELSE best_loss
            /\ min_loss' = IF better THEN loss ELSE min_loss
            /\ bad_steps' = bad
            /\ step_i' = step_i + 1
            /\ pc' = IF stop THEN "done" ELSE "loop"
    /\ UNCHANGED <<frVars, fitVars, ioVars>>

OptInit ==
    /\ fr = FrequencyResponse(GRID5, <<0, 0, 0, 0, 0>>)
    /\ compensation = FrequencyResponse(GRID5, <<0, 0, 0, 0, 0>>)
    /\ op = "optimize_parametric_eq"
    /\ err = "none"
    /\ fit_target = <<>>
    /\ IoIdle
    /\ seed = SeedIdle /\ fit = FitIdle
    /\ step_i = 0 /\ min_loss = -1 /\ bad_steps = 0 /\ step_loss = -1
    /\ saved = 0 /\ saved_loss = -1 /\ least_saved_loss = -1 /\ best_loss = -1 /\ pc = "loop"

OptNext == OptStep

OptSpec == OptInit /\ [][OptNext]_vars

\* the interpreter runs the loop body again as long as the loop has not ended
OptFairSpec == OptSpec /\ WF_vars(OptStep)

-----------------------------------------------------------------------------
(* Peak initialisation and pruning of _run_optimize_parametric_eq as steps. *)
(* seed.pc is the place in lines 228-325: "start", "peaks" (line 243 done), *)
(* "candidates" (line 254 done), "merge" (the test of line 317 is next),    *)
(* "truncate" (line 320 is next), "seeded" (line 334) or "raised".          *)

MaxFilters == 3     \* max_filters is None (-1) or 0..MaxFilters
MaxSaved == 3       \* the optimiser returns from 0 to MaxSaved filters

\* an equalization curve: a bass slope of bass units a grid step that ends at
\* the 24th grid point, and the given samples on top of it
SeedCurve(bass, points) ==
    [i \in 1..SEED_N |->
        bass * Max(0, 24 - i)
        + (IF \E p \in points : p[1] = i THEN (CHOOSE p \in points : p[1] = i)[2] ELSE 0)]

SeedPoints ==
    {{},
     {<<14, 10>>},
     {<<15, 10>>},
     {<<28, 10>>},
     {<<27, -10>>},
     {<<14, 10>>, <<15, 8>>, <<16, 10>>, <<21, -10>>},
     {<<14, 10>>, <<15, 9>>, <<16, 10>>, <<17, 9>>, <<18, 10>>},
     {<<14, 3>>, <<20, -2>>, <<28, 10>>},
     {<<14, 20>>, <<21, 30>>, <<27, 10>>}}

SeedTargets == {SeedCurve(bass, points) : bass \in {0, 1}, points \in SeedPoints}

\* every grid frequency a float32 number, or only the first (20 Hz)
Float32Exact == {1..SEED_N, {1}}

SavedFilters == [fc : {F60, F80}, Q : {-7, 0, 7}, gain : {-2, 1}]

SeedStep(from, s) ==
    /\ seed.pc = from
    /\ seed' = s
    /\ UNCHANGED <<frVars, optVars, fit, ioVars>>

\* lines 228-243
SeedPeaks ==
    /\ seed.pc = "start"
    /\ LET smoothed == seed_smoothed(seed.target)
       IN  SeedStep("start", [seed EXCEPT !.smoothed = smoothed,
                                          !.peak_fc = peak_frequencies(smoothed),
                                          !.pc = "peaks"])

\* lines 245-254
SeedSubBass ==
    /\ ~sub_bass_raises(seed.peak_fc)
    /\ LET peak_fc == sub_bass(seed.peak_fc)
       IN  SeedStep("peaks", [seed EXCEPT !.peak_fc = peak_fc,
                                          !.peak_g = peak_gains(seed.smoothed, peak_fc),
                                          !.pc = "candidates"])

SeedSubBassRaises ==
    /\ sub_bass_raises(seed.peak_fc)
    /\ SeedStep("peaks", [seed EXCEPT !.pc = "raised", !.err = "IndexError"])

\* lines 306-314
SeedRemoveSmall ==
    /\ seed.pc = "candidates"
    /\ SeedStep("candidates", [remove_small(seed) EXCEPT
                                    !.pc = IF seed.max_filters = -1 THEN "seeded" ELSE "merge"])

\* line 317, merge_filters() returns True
SeedMerge ==
    /\ seed.pc = "merge"
    /\ merge_filters_raises(seed) = "none"
    /\ merge_filters_result(seed)
    /\ LET s == merge_filters(seed)
       IN  SeedStep("merge", [s EXCEPT !.pc = IF Len(s.peak_fc) > s.max_filters
                                              THEN "merge" ELSE "truncate"])

\* line 317, merge_filters() returns False
SeedMergeDeclined ==
    /\ seed.pc = "merge"
    /\ merge_filters_raises(seed) = "none"
    /\ ~merge_filters_result(seed)
    /\ SeedStep("merge", [seed EXCEPT !.pc = "truncate"])

\* line 317, merge_filters() raises
SeedMergeRaises ==
    /\ seed.pc = "merge"
    /\ merge_filters_raises(seed) # "none"
    /\ SeedStep("merge", [seed EXCEPT !.pc = "raised", !.err = merge_filters_raises(seed)])

\* lines 320-325
SeedTruncate ==
    /\ seed.pc = "truncate"
    /\ SeedStep("truncate", [truncate(seed) EXCEPT !.pc = "seeded"])

SeedInit ==
    /\ fr = FrequencyResponse(GRID5, <<0, 0, 0, 0, 0>>)
    /\ compensation = FrequencyResponse(GRID5, <<0, 0, 0, 0, 0>>)
    /\ op = "optimize_parametric_eq"
    /\ err = "none"
    /\ fit_target = <<>>
    /\ IoIdle
    /\ OptIdle
    /\ fit = FitIdle
    /\ seed \in {[SeedIdle EXCEPT !.target = t, !.max_filters = m, !.exact = e, !.pc = "start"] :
                    t \in SeedTargets, m \in -1..MaxFilters, e \in Float32Exact}

SeedNext ==
    \/ SeedPeaks
    \/ SeedSubBass
    \/ SeedSubBassRaises
    \/ SeedRemoveSmall
    \/ SeedMerge
    \/ SeedMergeDeclined
    \/ SeedMergeRaises
    \/ SeedTruncate

SeedSpec == SeedInit /\ [][SeedNext]_vars

\* lines 460-463 on whatever the loop stored
Prune ==
    /\ fit.pc = "saved"
    /\ fit' = [fit EXCEPT !.returned = prune(fit.saved), !.pc = "returned"]
    /\ UNCHANGED <<frVars, optVars, seed, ioVars>>

RECURSIVE SavedArrays(_)
SavedArrays(n) ==
    IF n = 0 THEN {[fc |-> <<>>, Q |-> <<>>, gain |-> <<>>]}
    ELSE {[fc |-> Append(a.fc, f.fc), Q |-> Append(a.Q, f.Q), gain |-> Append(a.gain, f.gain)] :
            a \in SavedArrays(n - 1), f \in SavedFilters}

PruneInit ==
    /\ fr = FrequencyResponse(GRID5, <<0, 0, 0, 0, 0>>)
    /\ compensation = FrequencyResponse(GRID5, <<0, 0, 0, 0, 0>>)
    /\ op = "optimize_parametric_eq"
    /\ err = "none"
    /\ fit_target = <<>>
    /\ IoIdle
    /\ OptIdle
    /\ seed = SeedIdle
    /\ fit \in {[FitIdle EXCEPT !.saved = a, !.pc = "saved"] :
                    a \in UNION {SavedArrays(n) : n \in 0..MaxSaved}}

PruneNext == Prune

PruneSpec == PruneInit /\ [][PruneNext]_vars

-----------------------------------------------------------------------------
(* equalize called directly on compensated buffers, also with a transition  *)
(* band turned round                                                        *)

InvertedBands ==
    {[max_gain |-> DEFAULT_MAX_GAIN, smoothen |-> sm,
      treble_f_lower |-> b[1], treble_f_upper |-> b[2],
      treble_max_gain |-> DEFAULT_TREBLE_MAX_GAIN, treble_gain_k |-> DEFAULT_TREBLE_GAIN_K] :
        sm \in BOOLEAN, b \in {<<9, 5>>, <<DEFAULT_TREBLE_F_UPPER, DEFAULT_TREBLE_F_LOWER>>}}

ErrorSamples == {-100, -30, 40}

\* equalize has no test of the band: lines 881-933 run as with any other band
EqualizeBand ==
    \E p \in InvertedBands :
        /\ ~equalize_missing(fr)
        /\ ~equalize_spline_raises(fr, p)
        /\ Returned("equalize", equalize(fr, p))
        /\ UNCHANGED compensation

EqualizeBandRaises ==
    \E p \in InvertedBands :
        /\ equalize_missing(fr) \/ equalize_spline_raises(fr, p)
        /\ Raised("equalize", equalize_raised(fr, p),
                  IF equalize_missing(fr) THEN "ValueError" ELSE "dfitpack.error")

EqualizeInit ==
    /\ compensation = FrequencyResponse(GRID5, <<0, 0, 0, 0, 0>>)
    /\ fr \in {compensate(FrequencyResponse(GRID5, raw), compensation, 0, 0) :
                    raw \in [1..5 -> ErrorSamples]}
    /\ op = "compensate"
    /\ err = "none"
    /\ fit_target = <<>>
    /\ IoIdle
    /\ OptIdle
    /\ seed = SeedIdle /\ fit = FitIdle

EqualizeNext ==
    \/ Equalize
    \/ EqualizeRaises
    \/ EqualizeBand
    \/ EqualizeBandRaises

EqualizeSpec == EqualizeInit /\ [][EqualizeNext]_vars

-----------------------------------------------------------------------------
(* generate_frequencies as steps: gen.pc is "down" in the loop of lines     *)
(* 623-625, "up" in the loop of lines 628-630 and "done" after line 631.    *)

GenInputs == {<<DEFAULT_F_MIN, DEFAULT_F_MAX, DEFAULT_STEP>>, <<DEFAULT_F_MIN, 20400, DEFAULT_STEP>>, <<5000, 10000, 102>>}

GenStep(from, g) ==
    /\ gen.pc = from
    /\ gen' = g
    /\ UNCHANGED <<frVars, optVars, fitVars, csv, main>>

\* lines 623-625, one pass of the loop
GenDown ==
    /\ f_greater(gen.f, gen.f_min)
    /\ GenStep("down", [gen EXCEPT !.freq_new = Append(@, int_round(gen.f)),
                                   !.f = f_div(@, gen.f_step)])

\* line 623 false, line 627
GenTurn ==
    /\ ~f_greater(gen.f, gen.f_min)
    /\ GenStep("down", [gen EXCEPT !.f = <<Min(F_TOP, gen.f_max), 0>>, !.pc = "up"])

\* lines 628-630, one pass of the loop
GenUp ==
    /\ f_less(gen.f, gen.f_max)
    /\ GenStep("up", [gen EXCEPT !.freq_new = Append(@, int_round(gen.f)),
                                 !.f = f_mul(@, gen.f_step)])

\* line 628 false, lines 631-632
GenReturn ==
    /\ ~f_less(gen.f, gen.f_max)
    /\ GenStep("up", [gen EXCEPT !.out = sorted_set(gen.freq_new), !.pc = "done"])

GenInit ==
    /\ fr = FrequencyResponse(GRID5, <<0, 0, 0, 0, 0>>)
    /\ compensation = FrequencyResponse(GRID5, <<0, 0, 0, 0, 0>>)
    /\ op = "generate_frequencies"
    /\ err = "none"
    /\ fit_target = <<>>
    /\ OptIdle
    /\ seed = SeedIdle /\ fit = FitIdle
    /\ csv = CsvIdle /\ main = MainIdle
    /\ gen \in {[GenIdle EXCEPT !.f_min = a[1], !.f_max = a[2], !.f_step = a[3],
                                !.f = <<Min(F_TOP, a[2]), 0>>, !.pc = "down"] : a \in GenInputs}

GenNext == GenDown \/ GenTurn \/ GenUp \/ GenReturn

GenSpec == GenInit /\ [][GenNext]_vars

-----------------------------------------------------------------------------
(* A buffer written to a file and read back.  csv.pc is "buffer" before    *)
(* write_to_csv, "written" after it and "read" after read_from_csv.        *)

\* thousandths of a dB, none of them half way between two hundredths
CsvSamples == {<<1234, -6, 0>>, <<-1004, 2996, 15>>}

CsvBuffers ==
    {[c \in Columns |-> IF c = "frequency" THEN CSV_FREQUENCY
                        ELSE IF c \in present THEN v ELSE <<>>] :
        present \in SUBSET Channels, v \in CsvSamples}

WriteToCsv ==
    /\ csv.pc = "buffer"
    /\ csv' = [file |-> write_to_csv(fr), pc |-> "written"]
    /\ op' = "write_to_csv"
    /\ UNCHANGED <<fr, compensation, err, fit_target, optVars, fitVars, gen, main>>

ReadFromCsv ==
    /\ csv.pc = "written"
    /\ fr' = read_from_csv(csv.file)
    /\ csv' = [csv EXCEPT !.pc = "read"]
    /\ op' = "read_from_csv"
    /\ UNCHANGED <<compensation, err, fit_target, optVars, fitVars, gen, main>>

CsvInit ==
    /\ fr \in CsvBuffers
    /\ compensation = FrequencyResponse(GRID5, <<0, 0, 0, 0, 0>>)
    /\ op = "__init__"
    /\ err = "none"
    /\ fit_target = <<>>
    /\ OptIdle
    /\ seed = SeedIdle /\ fit = FitIdle
    /\ gen = GenIdle /\ main = MainIdle
    /\ csv = [CsvIdle EXCEPT !.pc = "buffer"]

CsvNext == WriteToCsv \/ ReadFromCsv

CsvSpec == CsvInit /\ [][CsvNext]_vars

-----------------------------------------------------------------------------
(* main, lines 1087-1162.  main.pc is "start" before line 1087, "glob" at   *)
(* line 1107, "read" at line 1117, the name of the call that is next on fr, *)
(* "write" at line 1164, "returned" or "raised".  main.ran lists the calls  *)
(* that have returned on the measurement under work, main.done the lists of *)
(* the measurements finished.                                               *)

MaxFiles == 2

Stages == {"interpolate", "calibrate", "center", "compensate", "smoothen", "equalize",
           "optimize_parametric_eq"}

\* lines 1141-1148
main_smoothen ==
    [window_size |-> DEFAULT_SMOOTHING_WINDOW_SIZE, iterations |-> DEFAULT_SMOOTHING_ITERATIONS,
     treble_window_size |-> DEFAULT_TREBLE_SMOOTHING_WINDOW_SIZE,
     treble_iterations |-> DEFAULT_TREBLE_SMOOTHING_ITERATIONS,
     treble_f_lower |-> DEFAULT_TREBLE_F_LOWER, treble_f_upper |-> DEFAULT_TREBLE_F_UPPER]

\* lines 1152-1159
main_equalize ==
    [max_gain |-> DEFAULT_MAX_GAIN, smoothen |-> TRUE,
     treble_f_lower |-> DEFAULT_TREBLE_F_LOWER, treble_f_upper |-> DEFAULT_TREBLE_F_UPPER,
     treble_max_gain |-> DEFAULT_TREBLE_MAX_GAIN, treble_gain_k |-> DEFAULT_TREBLE_GAIN_K]

\* the order with optimize_parametric_eq before equalize
after_optimize_first(m, stage) ==
    CASE stage = "read" -> "interpolate"
      [] stage = "interpolate" -> IF Len(m.calibration.raw) > 0 THEN "calibrate" ELSE "center"
      [] stage = "calibrate" -> "center"
      [] stage = "center" -> IF m.compensation THEN "compensate" ELSE "smoothen"
      [] stage = "compensate" -> "smoothen"
      [] stage = "smoothen" -> IF m.equalize
                               THEN (IF m.parametric_eq THEN "optimize_parametric_eq" ELSE "equalize")
                               ELSE "write"
      [] stage = "optimize_parametric_eq" -> "equalize"
      [] stage = "equalize" -> "write"

\* lines 1127-1162: the call that follows stage
after(m, stage) ==
    CASE stage = "read" -> "interpolate"
      [] stage = "interpolate" -> IF Len(m.calibration.raw) > 0 THEN "calibrate" ELSE "center"
      [] stage = "calibrate" -> "center"
      [] stage = "center" -> IF m.compensation THEN "compensate" ELSE "smoothen"
      [] stage = "compensate" -> "smoothen"
      [] stage = "smoothen" -> IF m.equalize THEN "equalize" ELSE "write"
      [] stage = "equalize" -> IF m.parametric_eq THEN "optimize_parametric_eq" ELSE "write"
      [] stage = "optimize_parametric_eq" -> "write"

MainMoves(m) ==
    /\ main' = m
    /\ UNCHANGED <<optVars, fitVars, gen, csv>>

\* a call on fr that returns
MainCall(name, self) ==
    /\ main.pc = name
    /\ fr' = self
    /\ op' = name
    /\ err' = "none"
    /\ MainMoves([main EXCEPT !.ran = Append(@, name), !.pc = after(main, name)])

\* lines 1087-1088
MainRejects ==
    /\ main.pc = "start"
    /\ main.parametric_eq /\ ~main.equalize
    /\ MainMoves([main EXCEPT !.pc = "raised", !.err = "ValueError"])
    /\ UNCHANGED frVars

\* lines 1090-1103: the calibration and the compensation are read, interpolated
\* and centered
MainPrepare ==
    /\ main.pc = "start"
    /\ ~(main.parametric_eq /\ ~main.equalize)
    /\ compensation' = IF main.compensation THEN center(interpolate(compensation, GRID5))
                       ELSE compensation
    /\ MainMoves([main EXCEPT
            !.calibration = IF Len(@.raw) > 0
                            THEN [raw |-> center(interpolate(FrequencyResponse(GRID5, @.raw), GRID5)).raw]
                            ELSE @,
            !.pc = "glob"])
    /\ UNCHANGED <<fr, op, err, fit_target>>

\* lines 1108-1110
MainNoFiles ==
    /\ main.pc = "glob"
    /\ Len(main.glob_files) = 0
    /\ MainMoves([main EXCEPT !.pc = "returned"])
    /\ UNCHANGED frVars

\* lines 1115-1117
MainRead ==
    /\ main.pc \in {"glob", "read"}
    /\ main.file < Len(main.glob_files)
    /\ fr' = FrequencyResponse(CSV_FREQUENCY, main.glob_files[main.file + 1])
    /\ op' = "read_from_csv"
    /\ err' = "none"
    /\ fit_target' = <<>>
    /\ MainMoves([main EXCEPT !.file = @ + 1, !.ran = <<>>, !.pc = after(main, "read")])
    /\ UNCHANGED compensation

\* line 1127
MainInterpolate ==
    /\ ~interpolate_raises(fr)
    /\ MainCall("interpolate", interpolate(fr, GRID5))
    /\ UNCHANGED <<compensation, fit_target>>

\* lines 1129-1131
MainCalibrate ==
    /\ ~calibrate_raises(fr, main.calibration)
    /\ MainCall("calibrate", calibrate(fr, main.calibration))
    /\ UNCHANGED <<compensation, fit_target>>

\* line 1134
MainCenter ==
    /\ MainCall("center", center(fr))
    /\ UNCHANGED <<compensation, fit_target>>

\* lines 1136-1138, bass_boost and tilt at their defaults
MainCompensate ==
    /\ ~compensate_raises(fr, compensation)
    /\ MainCall("compensate", compensate(fr, compensation, 0, 0))
    /\ compensation' = compensate_argument(compensation)
    /\ UNCHANGED fit_target

\* lines 1141-1148
MainSmoothen ==
    /\ ~smoothen_raises(fr, main_smoothen)
    /\ MainCall("smoothen", smoothen(fr, main_smoothen))
    /\ UNCHANGED <<compensation, fit_target>>

\* lines 1151-1159
MainEqualize ==
    /\ ~equalize_missing(fr)
    /\ ~equalize_spline_raises(fr, main_equalize)
    /\ MainCall("equalize", equalize(fr, main_equalize))
    /\ UNCHANGED <<compensation, fit_target>>

\* lines 1160-1162
MainOptimize ==
    \E eq \in FitOutcomes(fr.equalization) :
        /\ ~optimize_parametric_eq_raises(fr)
        /\ MainCall("optimize_parametric_eq", optimize_parametric_eq(fr, eq))
        /\ fit_target' = fr.equalization
        /\ UNCHANGED compensation

\* a call on fr raises and main ends with its exception
main_raises(m, self, c) ==
    CASE m.pc = "interpolate" -> interpolate_raises(self)
      [] m.pc = "calibrate" -> calibrate_raises(self, m.calibration)
      [] m.pc = "compensate" -> compensate_raises(self, c)
      [] m.pc = "smoothen" -> smoothen_raises(self, main_smoothen)
      [] m.pc = "equalize" -> equalize_missing(self) \/ equalize_spline_raises(self, main_equalize)
      [] m.pc = "optimize_parametric_eq" -> optimize_parametric_eq_raises(self)
      [] OTHER -> FALSE

MainRaises ==
    /\ main.pc \in Stages
    /\ main_raises(main, fr, compensation)
    /\ fr' = IF main.pc = "equalize" THEN equalize_raised(fr, main_equalize) ELSE fr
    /\ op' = main.pc
    /\ err' = IF main.pc = "equalize" /\ ~equalize_missing(fr) THEN "dfitpack.error" ELSE "ValueError"
    /\ MainMoves([main EXCEPT !.pc = "raised", !.err = err'])
    /\ UNCHANGED <<compensation, fit_target>>

\* lines 1164-1186: the results of the measurement are written
MainWrite ==
    /\ main.pc = "write"
    /\ MainMoves([main EXCEPT !.done = Append(@, main.ran),
                              !.pc = IF main.file < Len(main.glob_files) THEN "read" ELSE "returned"])
    /\ UNCHANGED frVars

MainFiles == UNION {[1..n -> Measurements] : n \in 0..MaxFiles}

MainInit ==
    /\ fr = FrequencyResponse(CSV_FREQUENCY, <<0, 0, 0>>)
    /\ compensation \in Compensations
    /\ op = "main"
    /\ err = "none"
    /\ fit_target = <<>>
    /\ OptIdle
    /\ seed = SeedIdle /\ fit = FitIdle
    /\ gen = GenIdle /\ csv = CsvIdle
    /\ main \in {[MainIdle EXCEPT !.calibration = c, !.compensation = k, !.equalize = e,
                                  !.parametric_eq = q, !.glob_files = g, !.pc = "start"] :
                    c \in {[raw |-> <<>>], [raw |-> <<0, 40, 0, -140, 0>>]},
                    k \in BOOLEAN, e \in BOOLEAN, q \in BOOLEAN, g \in MainFiles}

MainNext ==
    \/ MainRejects
    \/ MainPrepare
    \/ MainNoFiles
    \/ MainRead
    \/ MainInterpolate
    \/ MainCalibrate
    \/ MainCenter
    \/ MainCompensate
    \/ MainSmoothen
    \/ MainEqualize
    \/ MainOptimize
    \/ MainRaises
    \/ MainWrite

MainSpec == MainInit /\ [][MainNext]_vars

-----------------------------------------------------------------------------
(* Properties *)

Present(c) == Len(fr[c]) > 0
OthersEmpty(self, kept) == \A c \in Channels \ kept : Len(self[c]) = 0
Interpolated == fr.frequency \in Grids

\* C1 as stated: when interpolate, calibrate or center returns, every channel
\* other than raw is empty.
C1_AllButRawEmpty ==
    (err = "none" /\ op \in {"interpolate", "calibrate", "center"})
        => OthersEmpty(fr, {"raw"})

\* C1 amended: when interpolate or calibrate returns, every channel other than raw
\* is empty; when center returns, every channel other than raw, smoothed and
\* target is empty, target is as it was and smoothed, when present, has been
\* lowered by the same offset as raw.
C1_ResetAfterRawWrite ==
    [][/\ (err' = "none" /\ op' \in {"interpolate", "calibrate"})
            => OthersEmpty(fr', {"raw"})
       /\ (err' = "none" /\ op' = "center")
            => /\ OthersEmpty(fr', {"raw", "smoothed", "target"})
               /\ fr'.target = fr.target
               /\ Len(fr'.smoothed) = Len(fr.smoothed)
               /\ Len(fr.smoothed) > 0 => Sub(fr'.smoothed, fr'.raw) = Sub(fr.smoothed, fr.raw)
      ]_vars

C1_CenterKeepsSmoothedAndTarget ==
    err = "none" /\ op = "center" /\ Present("smoothed") /\ Present("target")

\* C2: after a call of equalize that returns, parametric_eq is empty.
C2_EqualizeResetsParametricEq ==
    (err = "none" /\ op = "equalize") => ~Present("parametric_eq")

\* C3: compensate writes target and error, empties error_smoothed, equalization,
\* parametric_eq, equalized_raw and equalized_smoothed, and leaves raw and smoothed
\* of the buffer and raw and frequency of the compensation it was handed as they
\* were.
C3_CompensateFrame ==
    [][(err' = "none" /\ op' = "compensate")
            => /\ Len(fr'.target) = Len(fr'.frequency)
               /\ Len(fr'.error) = Len(fr'.frequency)
               /\ OthersEmpty(fr', {"raw", "smoothed", "target", "error"})
               /\ fr'.raw = fr.raw
               /\ fr'.smoothed = fr.smoothed
               /\ fr'.frequency = fr.frequency
               /\ compensation'.raw = compensation.raw
               /\ compensation'.frequency = compensation.frequency
      ]_vars

C3_CompensatedWithSmoothed ==
    /\ err = "none" /\ op = "compensate" /\ Present("smoothed")
    /\ \E i \in 1..Len(compensation.raw) : compensation.raw[i] # 0

\* C4: smoothen writes smoothed, and error_smoothed when error is present, empties
\* equalization, parametric_eq, equalized_raw and equalized_smoothed, and leaves
\* raw, error and target as they were.
C4_SmoothenFrame ==
    [][(err' = "none" /\ op' = "smoothen")
            => /\ Len(fr'.smoothed) = Len(fr'.frequency)
               /\ Len(fr.error) > 0 => Len(fr'.error_smoothed) = Len(fr'.frequency)
               /\ OthersEmpty(fr', {"raw", "smoothed", "target", "error", "error_smoothed"})
               /\ fr'.raw = fr.raw
               /\ fr'.error = fr.error
               /\ fr'.target = fr.target
      ]_vars

C4_SmoothedWithError ==
    err = "none" /\ op = "smoothen" /\ Present("error_smoothed") /\ Present("target")

\* a channel computed from the present contents of the channels it is made of
SmoothedFrom(data, smoothed) ==
    \E p \in SmoothenParams :
        /\ ~smoothen_raises(fr, p)
        /\ smoothed = _smoothen_data(fr, data, smoothen_params(p))

EqualizationFromError ==
    /\ ~equalize_missing(fr)
    /\ \E p \in EqualizeParams :
        \/ fr.equalization = equalize_clip(fr, p)
        \/ ~equalize_spline_raises(fr, p) /\ fr.equalization = equalize_smooth(fr, p)

\* C5: no stale data.  After interpolate, in the state a call returns in, every
\* present channel is what its operation makes of the present channels upstream
\* of it: raw -> {smoothed, target, error} -> error_smoothed -> equalization ->
\* {equalized_raw, equalized_smoothed, parametric_eq}.
C5_NoStaleData ==
    (Interpolated /\ err = "none") =>
        /\ Present("smoothed") => SmoothedFrom(fr.raw, fr.smoothed)
        /\ Present("error") => Present("target") /\ fr.error = Sub(fr.raw, fr.target)
        /\ Present("error_smoothed")
            => Present("error") /\ SmoothedFrom(fr.error, fr.error_smoothed)
        /\ Present("equalization") => EqualizationFromError
        /\ Present("equalized_raw")
            => Present("equalization") /\ fr.equalized_raw = Add(fr.raw, fr.equalization)
        /\ Present("equalized_smoothed")
            => /\ Present("equalization") /\ Present("smoothed")
               /\ fr.equalized_smoothed = Add(fr.smoothed, fr.equalization)
        /\ Present("parametric_eq")
            => Present("equalization") /\ fit_target = fr.equalization

\* C6: alignment.  In every state after interpolate (after calls that returned
\* and after calls that raised alike), every channel that is not empty has as
\* many samples as the frequency grid.
C6_Alignment ==
    Interpolated => \A c \in Channels : Len(fr[c]) \in {0, Len(fr.frequency)}

C6_EveryChannelAligned ==
    /\ Interpolated /\ err = "none"
    /\ \A c \in Channels : Len(fr[c]) = Len(fr.frequency)

SmoothedCentered(c) ==
    LET s == _smoothen_data(c, c.raw, smoothen_params(COMPENSATION_SMOOTHING))
    IN  Shift(s, Spline1(c.frequency, s, P1000))

\* C8: target composition.  After compensate, target is the smoothed and centered
\* compensation curve (0 at 1000 Hz) plus the bass-boost curve plus the tilt
\* curve, and error is raw - target; error = raw - target in every state in which
\* both are present.
C8_TargetComposition ==
    /\ (err = "none" /\ op = "compensate")
        => /\ Spline1(compensation.frequency, SmoothedCentered(compensation), P1000) = 0
           /\ \E q \in CompensateParams :
                fr.target = Add(SmoothedCentered(compensation), _target(fr, q[1], q[2]))
           /\ fr.error = Sub(fr.raw, fr.target)
    /\ (Present("error") /\ Present("target")) => fr.error = Sub(fr.raw, fr.target)

\* C9: equalization clipping.  After equalize, with kink smoothing or without,
\* the equalization is at no grid frequency above the maximum gain there.
C9_EqualizationClipping ==
    (err = "none" /\ op = "equalize")
        => \E p \in EqualizeParams :
            /\ ~equalize_spline_raises(fr, p)
            /\ fr.equalization = equalize(fr, p).equalization
            /\ \A i \in 1..Len(fr.equalization) :
                fr.equalization[i] <= max_gain_curve(fr, p)[i]

\* C10: optimizer monotone best.  The parameters stored by a step belong to a loss
\* that is not worse than the loss of any parameters stored earlier in the call.
C10_MonotoneBest ==
    saved # 0 => saved_loss <= least_saved_loss

\* C11: the optimizer tracks the lowest loss of all steps so far (after every
\* step the tracked loss is the least loss fetched), and a step stores
\* (fc, Q, gain) exactly when its loss is below that lowest loss, by whatever
\* amount (the first step stores).
C11_TracksBestLoss ==
    [][step_i' = step_i + 1
            => /\ min_loss' = best_loss'
               /\ (saved' = step_i') <=> (best_loss = -1 \/ step_loss' < best_loss)
      ]_vars

\* C12: early stop.  The loop ends at a step exactly when, after it, the lowest
\* loss so far is below target_loss, or the bad-step counter exceeds momentum,
\* or the step budget is used up; the counter is 0 after a step that improves
\* the lowest loss so far by more than threshold (the first step counts as one)
\* and one higher after every other step.
C12_EarlyStop ==
    [][step_i' = step_i + 1
            => /\ (pc' = "done") <=> \/ best_loss' < target_loss
                                     \/ bad_steps' > momentum
                                     \/ step_i' = STEPS
               /\ bad_steps' = IF best_loss = -1 \/ best_loss - step_loss' > threshold
                               THEN 0 ELSE bad_steps + 1
      ]_vars

\* C13: the loop terminates for every sequence of step losses: it never runs
\* more than STEPS steps nor more than momentum + 1 steps in a row without an
\* improvement above threshold, it does end, and when it has ended (target_loss
\* reached or not) parameters have been stored and min_loss, of which the RMSE
\* is the root, is a number.
C13_BoundedSteps ==
    /\ step_i <= STEPS
    /\ bad_steps <= momentum + 1
    /\ pc = "loop" => step_i < STEPS /\ bad_steps <= momentum
    /\ pc = "done" => saved # 0 /\ min_loss >= 0

C18_EmptyEqualizationRaises ==
    [][op' = "optimize_parametric_eq"
            => IF Len(fr.equalization) = 0
               THEN /\ err' = "ValueError"
                    /\ fr' = fr
                    /\ UNCHANGED optVars
               ELSE err' = "none"
      ]_vars

C18_RaisedWithDataPresent ==
    /\ op = "optimize_parametric_eq" /\ err = "ValueError"
    /\ Len(fr.equalization) = 0 /\ Len(fr.parametric_eq) = 0
    /\ Present("error") /\ Present("smoothed")

\* C19: equalize raises ValueError exactly when error and error_smoothed are
\* both empty.  When it returns, its input is error_smoothed if that is
\* present and error otherwise: the result is the one equalize gives for a
\* buffer holding only that input as its error data.
equalize_input(self) == IF Len(self.error_smoothed) > 0 THEN self.error_smoothed ELSE self.error

C19_EqualizeInput ==
    [][op' = "equalize"
            => /\ (err' = "ValueError") <=> (Len(fr.error_smoothed) = 0 /\ Len(fr.error) = 0)
               /\ err' = "ValueError" => fr' = equalize_begin(fr)
               /\ err' = "none"
                    => \E p \in EqualizeParams :
                        /\ ~equalize_spline_raises(fr, p)
                        /\ fr' = [equalize([fr EXCEPT !.error_smoothed = equalize_input(fr),
                                                      !.error = <<>>], p)
                                    EXCEPT !.error_smoothed = fr.error_smoothed,
                                           !.error = fr.error]
      ]_vars

C19_SmoothedErrorUsed ==
    /\ op = "equalize" /\ err = "none"
    /\ Present("error_smoothed") /\ Present("error")
    /\ \E p \in EqualizeParams :
        /\ ~p.smoothen
        /\ fr.equalization = equalize_clip([fr EXCEPT !.error = <<>>], p)
        /\ fr.equalization # equalize_clip([fr EXCEPT !.error_smoothed = <<>>], p)

\* C20: smoothen called with treble_f_upper <= treble_f_lower raises, whatever
\* the buffer holds, and a smoothen that raises leaves every channel as it
\* was; a smoothen that returns was called with treble_f_upper above
\* treble_f_lower.
C20_InvertedBandRaises ==
    [][/\ \A p \in SmoothenParams :
            p.treble_f_upper <= p.treble_f_lower => smoothen_raises(fr, p)
       /\ op' = "smoothen" /\ err' # "none" => fr' = fr
       /\ op' = "smoothen" /\ err' = "none"
            => \E p \in SmoothenParams :
                /\ p.treble_f_upper > p.treble_f_lower
                /\ fr' = smoothen(fr, p)
      ]_vars

C20_RaisedOnBandOnly ==
    /\ op = "smoothen" /\ err = "ValueError"
    /\ Present("smoothed") /\ Present("equalization")
    /\ \A p \in SmoothenParams :
        p.treble_f_upper > p.treble_f_lower => ~smoothen_raises(fr, p)

\* C14: every filter the optimizer returns has |gain| above 0.1 dB and Q above
\* 0, whatever fc, Q and gain the loop stored; the three returned arrays have
\* one length and hold the stored filters that were kept, in stored order.
C14_Pruned ==
    fit.pc = "returned"
        => LET r == fit.returned
               s == fit.saved
           IN  /\ Len(r.fc) = Len(r.gain) /\ Len(r.Q) = Len(r.gain)
               /\ \A j \in 1..Len(r.gain) : Abs(r.gain[j]) > 1 /\ r.Q[j] > 0
               /\ \E dropped \in SUBSET (1..Len(s.gain)) :
                    /\ r.fc = Kept(s.fc, dropped)
                    /\ r.gain = Kept(s.gain, dropped)
                    /\ Len(r.Q) = Len(Kept(s.Q, dropped))
                    /\ \A j \in 1..Len(r.Q) : Abs(r.Q[j]) = Abs(Kept(s.Q, dropped)[j])

\* C15: when max_filters is given, the candidates that seed the optimizer are
\* at most max_filters, and peak_fc and peak_g have one length.
C15_SeedFits ==
    seed.pc = "seeded"
        => /\ Len(seed.peak_fc) = Len(seed.peak_g)
           /\ seed.max_filters # -1 => Len(seed.peak_fc) <= seed.max_filters

\* seeded with the two largest of three candidates, the larger first
C15_SeededAfterTruncation ==
    /\ seed.pc = "seeded" /\ seed.max_filters = 2
    /\ Len(seed.peak_fc) = 2 /\ Len(peak_inds(seed.smoothed)) = 3
    /\ seed.peak_fc[1] > seed.peak_fc[2]
    /\ Abs(seed.peak_g[1]) > Abs(seed.peak_g[2])

\* C16: a merge happens only while the candidates are more than max_filters;
\* each merge puts one candidate in the place of two neighbours of one sign;
\* the merge phase never raises, and it goes on to line 320 as soon as the
\* candidates fit or no pair of neighbours of one sign qualifies, also when
\* there is no such pair.
C16_MergePhase ==
    [][seed.pc = "merge"
            => /\ seed'.pc # "raised"
               /\ Len(seed'.peak_fc) # Len(seed.peak_fc)
                    => /\ Len(seed.peak_fc) > seed.max_filters
                       /\ Len(seed'.peak_fc) = Len(seed.peak_fc) - 1
                       /\ \E j \in pair_inds(seed.peak_g) :
                            /\ SubSeq(seed'.peak_fc, 1, j - 1) = SubSeq(seed.peak_fc, 1, j - 1)
                            /\ SubSeq(seed'.peak_fc, j + 1, Len(seed'.peak_fc))
                                    = SubSeq(seed.peak_fc, j + 2, Len(seed.peak_fc))
               /\ (Len(seed.peak_fc) <= seed.max_filters \/ pair_inds(seed.peak_g) = {})
                    => seed'.pc = "truncate" /\ seed'.peak_fc = seed.peak_fc
      ]_vars

\* C17: candidates at 20 Hz and 60 Hz are put in front when the lowest peak is
\* above 80 Hz, the one at 20 Hz alone when it is above 40 Hz but not above
\* 80 Hz, none when it is not above 40 Hz; their gains are read off the
\* smoothed target, linear in log10(f) between the grid points (20 Hz is the
\* first grid point, 60 Hz a third of the way from the 22nd to the 23rd).
C17_SubBass ==
    [][seed.pc = "peaks" /\ seed'.pc = "candidates"
            => LET lowest == seed.peak_fc[1]
                   n == Len(seed.peak_fc)
                   m == Len(seed'.peak_fc)
                   g20 == seed.smoothed[1]
                   g60 == Round(2 * seed.smoothed[22] + seed.smoothed[23], 3)
               IN  /\ SubSeq(seed'.peak_fc, m - n + 1, m) = seed.peak_fc
                   /\ Len(seed'.peak_g) = m
                   /\ IF lowest > F80
                      THEN /\ SubSeq(seed'.peak_fc, 1, m - n) = <<F20, F60>>
                           /\ SubSeq(seed'.peak_g, 1, m - n) = <<g20, g60>>
                      ELSE IF lowest > F40
                      THEN /\ SubSeq(seed'.peak_fc, 1, m - n) = <<F20>>
                           /\ SubSeq(seed'.peak_g, 1, m - n) = <<g20>>
                      ELSE m = n
      ]_vars

C17_BothPrepended ==
    /\ seed.pc = "candidates"
    /\ Len(seed.peak_fc) = 3
    /\ seed.peak_fc[1] = F20 /\ seed.peak_fc[2] = F60 /\ seed.peak_fc[3] > F80
    /\ seed.peak_g[1] > seed.peak_g[2] /\ seed.peak_g[2] > 0

\* C28: peak initialisation never raises, whatever the curve: with no
\* candidate and with a single candidate too it reaches line 334 and seeds
\* the optimizer with the candidates it has.
C28_SeedNeverRaises == seed.pc # "raised"

\* C27: when the loop has ended, the loss whose root is returned as RMSE
\* (min_loss, line 452) is the loss of the step that stored the returned
\* parameters last, for every sequence of step losses.
C27_RmseOfSavedStep == pc = "done" => min_loss = saved_loss

\* C21: equalize called with treble_f_upper <= treble_f_lower raises an
\* invalid-configuration error and produces no equalization: every equalize
\* that returns was called with treble_f_upper above treble_f_lower, and no
\* equalization is left by one that was not.
C21_InvertedBandRejected ==
    [][op' = "equalize" /\ err' = "none"
            => \E p \in EqualizeParams :
                /\ p.treble_f_upper > p.treble_f_lower
                /\ ~equalize_spline_raises(fr, p)
                /\ fr' = equalize(fr, p)
      ]_vars

\* C25: center applied to a centered buffer changes nothing: the value of raw
\* at 1000 Hz, linear in log f between the grid points, is 0 after center, so
\* a second call subtracts 0 from raw and smoothed, and it finds the channels
\* that the first call left.
C25_CenterIdempotent ==
    op = "center" /\ err = "none"
        => /\ Spline1(fr.frequency, fr.raw, P1000) = 0
           /\ center(fr) = fr
           /\ \A c \in Channels : Len(center(fr)[c]) > 0 <=> Len(fr[c]) > 0

C25_CenteredWithSmoothed ==
    /\ op = "center" /\ err = "none"
    /\ Present("smoothed") /\ Present("target")
    /\ \E i \in 1..Len(fr.raw) : fr.raw[i] # 0 /\ fr.smoothed[i] # fr.raw[i]
    /\ \A i \in 1..Len(fr.frequency) : fr.frequency[i] # P1000

\* C26: the kinks of equalize are the samples after the first whose clipped
\* flag differs from the sample before; the samples left out of the spline
\* fit are those within (w - 1) / 2 samples of a kink, inside the grid, w the
\* window of 1/12 octave, except the last two samples of the grid; and an
\* equalize that returns has fitted the spline to the samples that are left.
AllBands == EqualizeParams \cup InvertedBands

Kinks(clipped) == {i \in 2..Len(clipped) : clipped[i] # clipped[i - 1]}

Dropped(n, kinks, w) ==
    {j \in 1..n : \E i \in kinks : j >= i - (w - 1) \div 2 /\ j <= i + (w - 1) \div 2} \ {n, n - 1}

Refit(self, p, dropped) ==
    LET f == Kept(self.frequency, dropped)
        e == Kept(equalize_clip(self, p), dropped)
    IN  [i \in 1..Len(self.frequency) |-> Spline2(f, e, self.frequency[i])]

C26_KinkHandling ==
    ~equalize_missing(fr)
        => LET n == Len(fr.frequency)
           IN  /\ \A p \in AllBands :
                    LET clipped == equalize_clipped(fr, p)
                    IN  /\ kink_inds(clipped) = Kinks(clipped)
                        /\ equalize_doomed(fr, p) = Dropped(n, Kinks(clipped), _window_size(fr, KINK_WINDOW_SIZE))
                        /\ \A w \in {3, 5, 7} :
                            doomed_inds(n, kink_inds(clipped), w) = Dropped(n, Kinks(clipped), w)
               /\ op = "equalize" /\ err = "none"
                    => \E p \in {q \in AllBands : ~equalize_spline_raises(fr, q)} :
                        LET dropped == Dropped(n, Kinks(equalize_clipped(fr, p)), _window_size(fr, KINK_WINDOW_SIZE))
                        IN  fr.equalization = IF p.smoothen THEN Refit(fr, p, dropped)
                                              ELSE equalize_clip(fr, p)

C26_RefitAfterKink ==
    /\ op = "equalize" /\ err = "none"
    /\ \E p \in EqualizeParams :
        /\ p.smoothen
        /\ equalize_clipped(fr, p)[1]
        /\ Cardinality(equalize_doomed(fr, p)) = 2
        /\ fr.equalization = equalize_smooth(fr, p)
        /\ fr.equalization # equalize_clip(fr, p)

\* C24: generate_frequencies(20, 20000, 1.01) returns whole numbers that rise
\* strictly, the first 20 and the last 20000, and between 700 and 720 of them.
GenDefaults ==
    /\ gen.pc = "done"
    /\ gen.f_min = DEFAULT_F_MIN /\ gen.f_max = DEFAULT_F_MAX /\ gen.f_step = DEFAULT_STEP

C23_RoundTrip ==
    [][csv'.pc = "read"
            => \A c \in Channels :
                /\ Len(fr'[c]) > 0 <=> Len(fr[c]) > 0
                /\ fr'[c] = [i \in 1..Len(fr[c]) |-> parse_2f(format_2f(fr[c][i]))]
      ]_vars

\* C22: on every measurement main calls interpolate, calibrate (with a
\* calibration only), center, compensate (with a compensation only), smoothen,
\* equalize (when asked for) and optimize_parametric_eq (when asked for), in
\* this order; optimize_parametric_eq is not called on a measurement before
\* equalize has returned on it; and a run asked for the parametric equalizer
\* without the equalization raises before it reads a measurement.
Order == <<"interpolate", "calibrate", "center", "compensate", "smoothen", "equalize", "optimize_parametric_eq">>

Asked(stage) ==
    CASE stage = "calibrate" -> Len(main.calibration.raw) > 0
      [] stage = "compensate" -> main.compensation
      [] stage = "equalize" -> main.equalize
      [] stage = "optimize_parametric_eq" -> main.parametric_eq
      [] OTHER -> TRUE

Expected == SelectSeq(Order, Asked)

IsPrefix(a, b) == Len(a) <= Len(b) /\ a = SubSeq(b, 1, Len(a))

C22_StageOrder ==
    /\ IsPrefix(main.ran, Expected)
    /\ main.pc \in Stages => IsPrefix(Append(main.ran, main.pc), Expected)
    /\ main.pc = "write" => main.ran = Expected
    /\ \A k \in 1..Len(main.done) : main.done[k] = Expected
    /\ main.pc = "returned" => Len(main.done) = Len(main.glob_files)
    /\ Len(main.ran) > 0 /\ main.pc # "raised" => op = main.ran[Len(main.ran)] /\ err = "none"
    /\ main.pc = "optimize_parametric_eq" \/ (\E k \in 1..Len(main.ran) : main.ran[k] = "optimize_parametric_eq")
        => /\ \E k \in 1..Len(main.ran) : main.ran[k] = "equalize"
           /\ Len(fr.equalization) > 0
    /\ main.parametric_eq /\ ~main.equalize
        => /\ main.pc \in {"start", "raised"}
           /\ main.file = 0 /\ main.ran = <<>> /\ main.done = <<>>
           /\ op = "main"

C22_TwoMeasurementsThroughEveryStage ==
    /\ main.pc = "returned"
    /\ Len(main.done) = 2
    /\ main.done[2] = Order
    /\ Len(fr.parametric_eq) > 0
    /\ main.glob_files[1] # main.glob_files[2]

====
